---- MODULE Spec2Model ----
(***************************************************************************)
(* The Spotify tool server: tool handlers of src/src/read.ts (read tools   *)
(* and, from line 526 on, the player tools) and src/src/write.ts, called   *)
(* by the transport registered in src/unnamed/part_000.                    *)
(*                                                                         *)
(* A string is a sequence of tokens (template literals and + are \o, the   *)
(* empty string is << >>).  An optional value (T | undefined) is a set     *)
(* with at most one element.  A tool invocation occupies a slot of the     *)
(* transport from the arrival of the call to the delivery of its outcome.  *)
(***************************************************************************)
EXTENDS Integers, Sequences, FiniteSets, TLC

VARIABLES inv

vars == <<inv>>

\* ------------------------------------------------------------------ bounds
MaxInv == 2

Slots == 1..MaxInv

\* ------------------------------------------------- values of the language
None == {}

Some(v) == {v}

Opt(S) == {None} \cup {Some(v) : v \in S}

Get(o) == CHOOSE v \in o : TRUE

\* JavaScript truthiness of a (string | undefined): defined and not ''.
Truthy(o) == o # None /\ Get(o) # <<>>

\* `x || ''`
OrEmpty(o) == IF Truthy(o) THEN Get(o) ELSE <<>>

\* ------------------------------------------------------------ input domain
ItemTypes == {<<"track">>, <<"album">>, <<"artist">>, <<"playlist">>}

TypeInputs == ItemTypes \cup {<<"episode">>}

UriInputs == {<<>>, <<"spotify:", "track", ":", "t1">>, <<"spotify:", "album", ":", "a1">>}

IdInputs == {<<>>, <<"t1">>}

DeviceInputs == {<<"d1">>}

Messages == {<<"Bad or expired token">>, <<"Bad request">>}

\* ------------------------------------------------------- outcome of a call
NoOutcome == [kind |-> "none", text |-> <<>>]

Invalid == [kind |-> "invalid", text |-> <<>>]

Content(t) == [kind |-> "content", text |-> t]

Throw(m) == [kind |-> "throw", text |-> m]

Idle == [pc |-> "idle", tool |-> "none", args |-> <<>>, dispatches |-> 0,
         calls |-> <<>>, results |-> <<>>, successMessage |-> <<>>,
         error |-> None, outcome |-> NoOutcome]

\* ---------------------------------------------------------------- playMusic
playMusic_schema(args) == args.type \in Opt(ItemTypes)

playMusic_missingMut(args) ==
    ~Truthy(args.uri) /\ ~Truthy(args.type) /\ ~Truthy(args.id)

playMusic_missing(args) ==
    ~Truthy(args.uri) /\ (~Truthy(args.type) \/ ~Truthy(args.id))

playMusic_check(args) ==
    IF playMusic_missing(args)
    THEN Some(<<"Error: Must provide either a URI or both a type and ID">>)
    ELSE None

playMusic_spotifyUriMut(args) ==
    IF Truthy(args.type) /\ Truthy(args.id)
    THEN Some(<<"spotify:">> \o Get(args.type) \o <<":">> \o Get(args.id))
    ELSE args.uri

playMusic_spotifyUri(args) ==
    IF ~Truthy(args.uri) /\ Truthy(args.type) /\ Truthy(args.id)
    THEN Some(<<"spotify:">> \o Get(args.type) \o <<":">> \o Get(args.id))
    ELSE args.uri

playMusic_request(args) ==
    LET device == OrEmpty(args.deviceId)
        spotifyUri == playMusic_spotifyUri(args)
    IN  IF ~Truthy(spotifyUri)
        THEN [method |-> "startResumePlayback", device_id |-> device,
              context_uri |-> None, uris |-> None]
        ELSE IF args.type = Some(<<"track">>)
        THEN [method |-> "startResumePlayback", device_id |-> device,
              context_uri |-> None, uris |-> Some(<<Get(spotifyUri)>>)]
        ELSE [method |-> "startResumePlayback", device_id |-> device,
              context_uri |-> Some(Get(spotifyUri)), uris |-> None]

playMusic_return(args) ==
    Content(<<"Started playing ">>
            \o (IF Truthy(args.type) THEN Get(args.type) ELSE <<"music">>)
            \o <<" ">>
            \o (IF Truthy(args.id)
                THEN <<"(ID: ">> \o Get(args.id) \o <<")">>
                ELSE <<>>))

\* --------------------------------------------------------------- addToQueue
addToQueue_schema(args) == args.type \in Opt(ItemTypes)

addToQueue_spotifyUri(args) ==
    IF ~Truthy(args.uri) /\ Truthy(args.type) /\ Truthy(args.id)
    THEN Some(<<"spotify:">> \o Get(args.type) \o <<":">> \o Get(args.id))
    ELSE args.uri

addToQueue_check(args) ==
    IF ~Truthy(addToQueue_spotifyUri(args))
    THEN Some(<<"Error: Must provide either a URI or both a type and ID">>)
    ELSE None

addToQueue_request(args) ==
    [method |-> "addItemToPlaybackQueue",
     uri |-> Get(addToQueue_spotifyUri(args)),
     device_id |-> OrEmpty(args.deviceId)]

addToQueue_return(args) ==
    Content(<<"Added item ">> \o Get(addToQueue_spotifyUri(args)) \o <<" to queue">>)

\* ----------------------------------------------------------- playbackAction
Actions == {<<"pause">>, <<"resume">>, <<"skipToNext">>, <<"skipToPrevious">>}

ActionInputs == Actions \cup {<<"stop">>}

playbackAction_schema(args) == args.action \in Actions

playbackAction_request(args) ==
    LET device == OrEmpty(args.deviceId)
    IN  CASE args.action = <<"pause">> ->
               [method |-> "pausePlayback", device_id |-> device]
          [] args.action = <<"resume">> ->
               [method |-> "startResumePlayback", device_id |-> device,
                context_uri |-> None, uris |-> None]
          [] args.action = <<"skipToNext">> ->
               [method |-> "skipToNext", device_id |-> device]
          [] args.action = <<"skipToPrevious">> ->
               [method |-> "skipToPrevious", device_id |-> device]

\* `let successMessage = ''` is a local of the handler: every invocation has its
\* own, held in the record of its slot.
successMessage_cellMut(s) == 1

successMessage_cell(s) == s

\* The assignment the operation makes after its API call has resolved.
playbackAction_successMessage(args) ==
    CASE args.action = <<"pause">> -> <<"Playback paused">>
      [] args.action = <<"resume">> -> <<"Playback resumed">>
      [] args.action = <<"skipToNext">> -> <<"Skipped to next track">>
      [] args.action = <<"skipToPrevious">> -> <<"Skipped to previous track">>

playbackAction_return(successMessage) == Content(successMessage)

\* ----------------------------------------------------------- createPlaylist
NameInputs == {<<"Mix">>, <<>>}

DescriptionInputs == {<<"for running">>}

createPlaylist_schema(args) == TRUE

createPlaylist_request(args, results) ==
    IF Len(results) = 0
    THEN [method |-> "profile"]
    ELSE [method |-> "createPlaylist", user_id |-> results[1].id,
          name |-> args.name, description |-> args.description,
          public |-> IF args.public = None THEN FALSE ELSE Get(args.public)]

createPlaylist_return(args, result) ==
    Content(<<"Successfully created playlist \"">> \o args.name
            \o <<"\"\nPlaylist ID: ">> \o result.id)

\* ------------------------------------------------------ addTracksToPlaylist
MaxIds == 2

TrackIdInputs == {<<"t1">>, <<"t2">>}

PlaylistIdInputs == {<<"P1">>, <<"P2">>}

PositionInputs == {-1, 0, 1}

SeqsUpTo(S, n) == UNION {[1..k -> S] : k \in 0..n}

addTracksToPlaylist_schema(args) ==
    args.position = None \/ Get(args.position) >= 0

addTracksToPlaylist_checkMut(args) ==
    IF Len(args.trackIds) = 0 /\ args.position = None
    THEN Some(<<"Error: No track IDs provided">>)
    ELSE None

addTracksToPlaylist_check(args) ==
    IF Len(args.trackIds) = 0
    THEN Some(<<"Error: No track IDs provided">>)
    ELSE None

addTracksToPlaylist_trackUrisMut(trackIds) ==
    [i \in 1..Cardinality({trackIds[j] : j \in 1..Len(trackIds)}) |->
        <<"spotify:", "track", ":">> \o trackIds[i]]

addTracksToPlaylist_trackUris(trackIds) ==
    [i \in 1..Len(trackIds) |-> <<"spotify:", "track", ":">> \o trackIds[i]]

addTracksToPlaylist_request(args) ==
    [method |-> "addItemsToPlaylist", playlist_id |-> args.playlistId,
     uris |-> addTracksToPlaylist_trackUris(args.trackIds),
     position |-> args.position]

addTracksToPlaylist_returnMut(args) ==
    Content(<<"Successfully added ", ToString(Len(args.trackIds)), " track">>
            \o (IF Len(args.trackIds) <= 1 THEN <<"s">> ELSE <<>>)
            \o <<" to playlist (ID: ">> \o args.playlistId \o <<")">>)

addTracksToPlaylist_return(args) ==
    Content(<<"Successfully added ", ToString(Len(args.trackIds)), " track">>
            \o (IF Len(args.trackIds) = 1 THEN <<>> ELSE <<"s">>)
            \o <<" to playlist (ID: ">> \o args.playlistId \o <<")">>)

addTracksToPlaylist_catch(message) ==
    Content(<<"Error adding tracks to playlist: ">> \o message)

\* ------------------------------------------------- removeTracksFromPlaylist
removeTracksFromPlaylist_schema(args) == TRUE

removeTracksFromPlaylist_check(args) ==
    IF Len(args.trackIds) = 0
    THEN Some(<<"Error: No track IDs provided">>)
    ELSE None

removeTracksFromPlaylist_tracks(trackIds) ==
    [i \in 1..Len(trackIds) |->
        [uri |-> <<"spotify:", "track", ":">> \o trackIds[i]]]

removeTracksFromPlaylist_request(args) ==
    [method |-> "removeItemsFromPlaylist", playlist_id |-> args.playlistId,
     tracks |-> removeTracksFromPlaylist_tracks(args.trackIds)]

removeTracksFromPlaylist_return(args) ==
    Content(<<"Successfully removed ", ToString(Len(args.trackIds)), " track">>
            \o (IF Len(args.trackIds) = 1 THEN <<>> ELSE <<"s">>)
            \o <<" from playlist (ID: ">> \o args.playlistId \o <<")">>)

removeTracksFromPlaylist_catch(message) ==
    Content(<<"Error removing tracks from playlist: ">> \o message)

\* ------------------------------------------------------- API data (items)
MaxItems == 2

Artist1 == [name |-> <<"Queen">>, id |-> <<"ar1">>]

Artist2 == [name |-> <<"Bowie">>, id |-> <<"ar2">>]

Track1 == [type |-> <<"track">>, name |-> <<"Song 1">>, id |-> <<"t1">>,
           artists |-> Some(<<Artist1, Artist2>>),
           album |-> Some([name |-> Some(<<"Album 1">>)]), duration_ms |-> 125000]

Track2 == [type |-> <<"track">>, name |-> <<"Song 2">>, id |-> <<"t2">>,
           artists |-> Some(<<Artist1>>),
           album |-> Some([name |-> Some(<<"Album 2">>)]), duration_ms |-> 59000]

\* a track object without its album
BareTrack == [type |-> <<"track">>, name |-> <<"Song 3">>, id |-> <<"t3">>,
              artists |-> Some(<<Artist1>>), album |-> None, duration_ms |-> 1000]

Episode == [type |-> <<"episode">>, name |-> <<"Episode 1">>, id |-> <<"e1">>,
            artists |-> None, album |-> None, duration_ms |-> 600000]

Album1 == [name |-> <<"Album 1">>, id |-> <<"a1">>, artists |-> <<Artist1>>]

Playlist1 == [name |-> <<"Mix">>, id |-> <<"P1">>,
              description |-> Some(<<"daily">>),
              owner |-> Some([display_name |-> <<"me">>]),
              tracks |-> Some([total |-> 3])]

Playlist2 == [name |-> <<"Empty">>, id |-> <<"P2">>, description |-> None,
              owner |-> None, tracks |-> None]

RECURSIVE Join(_, _)
\* Array.prototype.join
Join(lines, sep) ==
    IF Len(lines) = 0 THEN <<>>
    ELSE IF Len(lines) = 1 THEN lines[1]
    ELSE lines[1] \o sep \o Join(Tail(lines), sep)

Names(artists) == Join([i \in 1..Len(artists) |-> artists[i].name], <<", ">>)

\* utils.formatDuration: M:SS with zero-padded seconds
formatDuration(ms) ==
    LET minutes == ms \div 60000
        seconds == (ms % 60000) \div 1000
    IN  <<ToString(minutes), ":">>
        \o (IF seconds < 10 THEN <<"0">> ELSE <<>>) \o <<ToString(seconds)>>

isTrack(item) ==
    /\ item # None
    /\ Get(item).type = <<"track">>
    /\ Get(item).artists # None
    /\ Get(item).album # None
    /\ Get(Get(item).album).name # None

\* ------------------------------------------------------------ searchSpotify
LimitMin == 1

LimitMax == 50

OffsetMin == 0

OffsetMax == 1000

SearchTypes == {<<"track">>, <<"album">>, <<"playlist">>}

QueryInputs == {<<"artist:Queen remaster">>}

DefaultLimit == 20

DefaultOffset == 0

DefaultListLimit == 50

LimitInputs == {LimitMin - 1, LimitMin, LimitMax, LimitMax + 1}

OffsetInputs == {OffsetMin - 1, OffsetMin, OffsetMax, OffsetMax + 1}

searchSpotify_schemaMut(args) ==
    /\ args.type \in SearchTypes
    /\ args.limit = None \/ (Get(args.limit) >= LimitMin - 1 /\ Get(args.limit) <= LimitMax)
    /\ args.offset = None \/ Get(args.offset) >= OffsetMin

searchSpotify_schema(args) ==
    /\ args.type \in SearchTypes
    /\ args.limit = None \/ (Get(args.limit) >= LimitMin /\ Get(args.limit) <= LimitMax)
    /\ args.offset = None \/ (Get(args.offset) >= OffsetMin /\ Get(args.offset) <= OffsetMax)

searchSpotify_request(args) ==
    [method |-> "search", q |-> args.query, type |-> <<args.type>>,
     limit |-> IF args.limit = None THEN DefaultLimit ELSE Get(args.limit),
     offset |-> IF args.offset = None THEN DefaultOffset ELSE Get(args.offset)]

searchSpotify_formattedResults(args, results) ==
    IF args.type = <<"track">> /\ results.tracks # None
    THEN LET items == Get(results.tracks).items
         IN  Join([i \in 1..Len(items) |->
                     <<ToString(i), ". \"">> \o items[i].name \o <<"\" by ">>
                     \o Names(Get(items[i].artists)) \o <<" (">>
                     \o formatDuration(items[i].duration_ms)
                     \o <<") - ID: ">> \o items[i].id], <<"\n">>)
    ELSE IF args.type = <<"album">> /\ results.albums # None
    THEN LET items == Get(results.albums).items
         IN  Join([i \in 1..Len(items) |->
                     <<ToString(i), ". \"">> \o items[i].name \o <<"\" by ">>
                     \o Names(items[i].artists)
                     \o <<" - ID: ">> \o items[i].id], <<"\n">>)
    ELSE IF args.type = <<"playlist">> /\ results.playlists # None
    THEN LET items == Get(results.playlists).items
             name(p) == IF p = None THEN <<"Unknown Playlist">> ELSE Get(p).name
             description(p) ==
                 IF p = None \/ Get(p).description = None
                 THEN <<"No description">> ELSE Get(Get(p).description)
             owner(p) ==
                 IF p = None \/ Get(p).owner = None
                 THEN <<"undefined">> ELSE Get(Get(p).owner).display_name
             id(p) == IF p = None THEN <<"undefined">> ELSE Get(p).id
         IN  Join([i \in 1..Len(items) |->
                     <<ToString(i), ". \"">> \o name(items[i]) \o <<" (">>
                     \o description(items[i]) \o <<" tracks)\" by ">>
                     \o owner(items[i]) \o <<" - ID: ">> \o id(items[i])],
                  <<"\n">>)
    ELSE <<>>

searchSpotify_return(args, results) ==
    LET formattedResults == searchSpotify_formattedResults(args, results)
    IN  Content(IF Len(formattedResults) > 0
                THEN <<"# Search results for \"">> \o args.query
                     \o <<"\" (type: ">> \o args.type \o <<")\n\n">>
                     \o formattedResults
                ELSE <<"No ">> \o args.type \o <<" results found for \"">>
                     \o args.query \o <<"\"">>)

searchSpotify_catch(args, message) ==
    Content(<<"Error searching for ">> \o args.type \o <<"s: ">> \o message)

\* The result pages the search endpoint can answer with for one item type.
SearchResults(type) ==
    LET none == [tracks |-> None, albums |-> None, playlists |-> None]
    IN  {none}
        \cup (IF type = <<"track">>
              THEN {[none EXCEPT !.tracks = Some([items |-> l])] :
                        l \in SeqsUpTo({Track1, Track2}, MaxItems)}
              ELSE IF type = <<"album">>
              THEN {[none EXCEPT !.albums = Some([items |-> l])] :
                        l \in SeqsUpTo({Album1}, MaxItems)}
              ELSE {[none EXCEPT !.playlists = Some([items |-> l])] :
                        l \in SeqsUpTo({None, Some(Playlist1)}, MaxItems)})

\* ------------------------------------------------------------ getNowPlaying
getNowPlaying_schema(args) == TRUE

getNowPlaying_request(args) == [method |-> "getCurrentlyPlayingTrack"]

getNowPlaying_report(currentTrack) ==
    LET item == Get(Get(currentTrack).item)
        artists == Names(Get(item.artists))
        album == Get(Get(item.album).name)
        duration == formatDuration(item.duration_ms)
        progress == formatDuration(
            IF Get(currentTrack).progress_ms = None THEN 0
            ELSE Get(Get(currentTrack).progress_ms))
    IN  Content(<<"# Currently ">>
                \o (IF Get(currentTrack).is_playing
                    THEN <<"Playing">> ELSE <<"Paused">>)
                \o <<"\n\n", "**Track**: \"">> \o item.name \o <<"\"\n">>
                \o <<"**Artist**: ">> \o artists \o <<"\n">>
                \o <<"**Album**: ">> \o album \o <<"\n">>
                \o <<"**Progress**: ">> \o progress \o <<" / ">> \o duration
                \o <<"\n", "**ID**: ">> \o item.id)

getNowPlaying_returnMut(currentTrack) ==
    IF currentTrack = None
    THEN Content(<<"Nothing is currently playing on Spotify">>)
    ELSE IF ~isTrack(Get(currentTrack).item)
    THEN Content(<<"Currently playing item is not a track (might be a podcast episode)">>)
    ELSE getNowPlaying_report(currentTrack)

getNowPlaying_return(currentTrack) ==
    IF currentTrack = None \/ Get(currentTrack).item = None
    THEN Content(<<"Nothing is currently playing on Spotify">>)
    ELSE IF ~isTrack(Get(currentTrack).item)
    THEN Content(<<"Currently playing item is not a track (might be a podcast episode)">>)
    ELSE getNowPlaying_report(currentTrack)

getNowPlaying_catch(message) ==
    Content(<<"Error getting current track: ">> \o message)

NowPlayingResults ==
    {None}
    \cup {Some([item |-> i, is_playing |-> p, progress_ms |-> g]) :
            i \in {None, Some(Track1), Some(BareTrack), Some(Episode)},
            p \in BOOLEAN, g \in {None, Some(65000)}}

\* --------------------------------------------------------------- list reads
\* limit: z.number().min(1).max(50).optional(), the schema of every list read
list_schema(args) ==
    args.limit = None \/ (Get(args.limit) >= LimitMin /\ Get(args.limit) <= LimitMax)

list_limit(args) == IF args.limit = None THEN DefaultListLimit ELSE Get(args.limit)

trackLineMut(i, track) ==
    IF track = None THEN <<ToString(i - 1), ". [Removed track]">>
    ELSE IF isTrack(track)
    THEN <<ToString(i - 1), ". \"">> \o Get(track).name \o <<"\" by ">>
         \o Names(Get(Get(track).artists)) \o <<" (">>
         \o formatDuration(Get(track).duration_ms)
         \o <<") - ID: ">> \o Get(track).id
    ELSE <<ToString(i - 1), ". Unknown item">>

\* the line of a playlist-track or play-history entry
trackLine(i, track) ==
    IF track = None THEN <<ToString(i), ". [Removed track]">>
    ELSE IF isTrack(track)
    THEN <<ToString(i), ". \"">> \o Get(track).name \o <<"\" by ">>
         \o Names(Get(Get(track).artists)) \o <<" (">>
         \o formatDuration(Get(track).duration_ms)
         \o <<") - ID: ">> \o Get(track).id
    ELSE <<ToString(i), ". Unknown item">>

getUserPlaylists_request(args) ==
    [method |-> "playlists", limit |-> list_limit(args)]

getUserPlaylists_returnMut(playlists) ==
    Content(<<"# Your Spotify Playlists", "\n\n">>
            \o Join([i \in 1..Len(playlists.items) |->
                       <<ToString(i), ". \"">> \o playlists.items[i].name
                       \o <<"\" - ID: ">> \o playlists.items[i].id], <<"\n">>))

getUserPlaylists_return(playlists) ==
    IF Len(playlists.items) = 0
    THEN Content(<<"You don't have any playlists on Spotify">>)
    ELSE LET tracksTotal(p) ==
                 IF p.tracks # None /\ Get(p.tracks).total # 0
                 THEN Get(p.tracks).total ELSE 0
         IN  Content(<<"# Your Spotify Playlists", "\n\n">>
                     \o Join([i \in 1..Len(playlists.items) |->
                                <<ToString(i), ". \"">> \o playlists.items[i].name
                                \o <<"\" (", ToString(tracksTotal(playlists.items[i])),
                                     " tracks) - ID: ">>
                                \o playlists.items[i].id], <<"\n">>))

UserPlaylistsResults ==
    {[items |-> l] : l \in SeqsUpTo({Playlist1, Playlist2}, MaxItems)}

getPlaylistTracks_request(args) ==
    [method |-> "getPlaylistItems", playlist_id |-> args.playlistId,
     limit |-> list_limit(args)]

getPlaylistTracks_return(playlistTracks) ==
    IF (IF playlistTracks.items = None THEN 0
        ELSE Len(Get(playlistTracks.items))) = 0
    THEN Content(<<"This playlist doesn't have any tracks">>)
    ELSE LET items == Get(playlistTracks.items)
         IN  Content(<<"# Tracks in Playlist", "\n\n">>
                     \o Join([i \in 1..Len(items) |-> trackLine(i, items[i].track)],
                             <<"\n">>))

PlaylistTracksResults ==
    {[items |-> None]}
    \cup {[items |-> Some(l)] :
            l \in SeqsUpTo({[track |-> None], [track |-> Some(Track1)],
                            [track |-> Some(Episode)]}, MaxItems)}

getRecentlyPlayed_request(args) ==
    [method |-> "getRecentlyPlayedTracks", limit |-> list_limit(args)]

getRecentlyPlayed_return(history) ==
    IF Len(history.items) = 0
    THEN Content(<<"You don't have any recently played tracks on Spotify">>)
    ELSE Content(<<"# Recently Played Tracks", "\n\n">>
                 \o Join([i \in 1..Len(history.items) |->
                            trackLine(i, history.items[i].track)], <<"\n">>))

RecentlyPlayedResults ==
    {[items |-> l] :
        l \in SeqsUpTo({[track |-> None], [track |-> Some(Track2)],
                        [track |-> Some(BareTrack)]}, MaxItems)}

AfterInputs == {<<"ar0">>}

getFollowedArtists_request(args) ==
    [method |-> "followedArtists", after |-> args.after,
     limit |-> list_limit(args)]

getFollowedArtists_return(artists) ==
    IF Len(artists.artists.items) = 0
    THEN Content(<<"User doesn't follow any artists on Spotify">>)
    ELSE Content(<<"# Artists You Follow", "\n\n">>
                 \o Join([i \in 1..Len(artists.artists.items) |->
                            <<ToString(i), ". \"">> \o artists.artists.items[i].name
                            \o <<"\" - ID: ">> \o artists.artists.items[i].id],
                         <<"\n">>))

FollowedArtistsResults ==
    {[artists |-> [items |-> l]] : l \in SeqsUpTo({Artist1, Artist2}, MaxItems)}

TopTypeInputs == {<<"artists">>, <<"tracks">>}

TimeRangeInputs == {<<"short_term">>}

getUserTopItems_request(args) ==
    [method |-> "topItems", type |-> args.type, time_range |-> args.time_range,
     limit |-> list_limit(args)]

getUserTopItems_return(args, topItems) ==
    IF Len(topItems.items) = 0
    THEN Content(<<"User doesn't have any top ">> \o args.type \o <<" on Spotify">>)
    ELSE LET line(i, item) ==
                 IF args.type = <<"artists">>
                 THEN <<ToString(i), ". \"">> \o item.name \o <<"\" - ID: ">> \o item.id
                 ELSE IF /\ args.type = <<"tracks">>
                         /\ "artists" \in DOMAIN item
                         /\ item.artists # None
                 THEN <<ToString(i), ". \"">> \o item.name \o <<"\" by ">>
                      \o Names(Get(item.artists)) \o <<" - ID: ">> \o item.id
                 ELSE <<ToString(i), ". \"">> \o item.name \o <<"\" - ID: ">> \o item.id
         IN  Content(<<"# Top ">> \o args.type \o <<"\n\n">>
                     \o Join([i \in 1..Len(topItems.items) |->
                                line(i, topItems.items[i])], <<"\n">>))

TopItemsResults(type) ==
    {[items |-> l] :
        l \in SeqsUpTo(IF type = <<"artists">> THEN {Artist1, Artist2}
                       ELSE {Track1, Track2}, MaxItems)}

\* ------------------------------------------------------- the tool registry
ListReads == {"getUserPlaylists", "getPlaylistTracks", "getRecentlyPlayed",
              "getFollowedArtists", "getUserTopItems"}

\* the schema the transport validates the arguments against
Schema(t, a) ==
    CASE t = "playMusic" -> playMusic_schema(a)
      [] t = "playbackAction" -> playbackAction_schema(a)
      [] t = "addToQueue" -> addToQueue_schema(a)
      [] t = "createPlaylist" -> createPlaylist_schema(a)
      [] t = "addTracksToPlaylist" -> addTracksToPlaylist_schema(a)
      [] t = "removeTracksFromPlaylist" -> removeTracksFromPlaylist_schema(a)
      [] t = "searchSpotify" -> searchSpotify_schema(a)
      [] t = "getNowPlaying" -> getNowPlaying_schema(a)
      [] t \in ListReads -> list_schema(a)

\* the handler's checks before its dispatcher call: the text it returns at once
Check(t, a) ==
    CASE t = "playMusic" -> playMusic_check(a)
      [] t = "addToQueue" -> addToQueue_check(a)
      [] t = "addTracksToPlaylist" -> addTracksToPlaylist_check(a)
      [] t = "removeTracksFromPlaylist" -> removeTracksFromPlaylist_check(a)
      [] OTHER -> None

\* the next API call of the operation the handler hands to the dispatcher
Request(t, a, results) ==
    CASE t = "playMusic" -> playMusic_request(a)
      [] t = "playbackAction" -> playbackAction_request(a)
      [] t = "addToQueue" -> addToQueue_request(a)
      [] t = "createPlaylist" -> createPlaylist_request(a, results)
      [] t = "addTracksToPlaylist" -> addTracksToPlaylist_request(a)
      [] t = "removeTracksFromPlaylist" -> removeTracksFromPlaylist_request(a)
      [] t = "searchSpotify" -> searchSpotify_request(a)
      [] t = "getNowPlaying" -> getNowPlaying_request(a)
      [] t = "getUserPlaylists" -> getUserPlaylists_request(a)
      [] t = "getPlaylistTracks" -> getPlaylistTracks_request(a)
      [] t = "getRecentlyPlayed" -> getRecentlyPlayed_request(a)
      [] t = "getFollowedArtists" -> getFollowedArtists_request(a)
      [] t = "getUserTopItems" -> getUserTopItems_request(a)

NumCallsMut(t) == IF t \in {"createPlaylist", "addToQueue"} THEN 2 ELSE 1

\* the number of API calls the operation awaits
NumCalls(t) == IF t = "createPlaylist" THEN 2 ELSE 1

\* what the handler returns once the dispatcher has returned `result`
Return(t, a, result, successMessage) ==
    CASE t = "playMusic" -> playMusic_return(a)
      [] t = "playbackAction" -> playbackAction_return(successMessage)
      [] t = "addToQueue" -> addToQueue_return(a)
      [] t = "createPlaylist" -> createPlaylist_return(a, result)
      [] t = "addTracksToPlaylist" -> addTracksToPlaylist_return(a)
      [] t = "removeTracksFromPlaylist" -> removeTracksFromPlaylist_return(a)
      [] t = "searchSpotify" -> searchSpotify_return(a, result)
      [] t = "getNowPlaying" -> getNowPlaying_return(result)
      [] t = "getUserPlaylists" -> getUserPlaylists_return(result)
      [] t = "getPlaylistTracks" -> getPlaylistTracks_return(result)
      [] t = "getRecentlyPlayed" -> getRecentlyPlayed_return(result)
      [] t = "getFollowedArtists" -> getFollowedArtists_return(result)
      [] t = "getUserTopItems" -> getUserTopItems_return(a, result)

\* the handlers whose dispatcher call stands inside a try block
Catches(t) ==
    t \in {"searchSpotify", "getNowPlaying", "addTracksToPlaylist",
           "removeTracksFromPlaylist"}

Catch(t, a, message) ==
    CASE t = "searchSpotify" -> searchSpotify_catch(a, message)
      [] t = "getNowPlaying" -> getNowPlaying_catch(message)
      [] t = "addTracksToPlaylist" -> addTracksToPlaylist_catch(message)
      [] t = "removeTracksFromPlaylist" -> removeTracksFromPlaylist_catch(message)

\* what the Spotify API can answer to a call
Results(a, call) ==
    CASE call.method = "search" -> SearchResults(a.type)
      [] call.method = "getCurrentlyPlayingTrack" -> NowPlayingResults
      [] call.method = "playlists" -> UserPlaylistsResults
      [] call.method = "getPlaylistItems" -> PlaylistTracksResults
      [] call.method = "getRecentlyPlayedTracks" -> RecentlyPlayedResults
      [] call.method = "followedArtists" -> FollowedArtistsResults
      [] call.method = "topItems" -> TopItemsResults(a.type)
      [] call.method = "profile" -> {[id |-> <<"u1">>]}
      [] call.method = "createPlaylist" -> {[id |-> <<"P7">>], [id |-> <<"P8">>]}
      [] OTHER -> {[void |-> TRUE]}

\* ---------------------------------------------------------------- transport
\* server.tool(name, description, schema, handler): the arguments are checked
\* against the schema, and the handler runs only if they pass, up to its first
\* await.
tool_call(t, a) ==
    LET entry == [Idle EXCEPT !.tool = t, !.args = a]
    IN  IF ~Schema(t, a)
        THEN [entry EXCEPT !.pc = "done", !.outcome = Invalid]
        ELSE IF Check(t, a) # None
        THEN [entry EXCEPT !.pc = "done", !.outcome = Content(Get(Check(t, a)))]
        ELSE [entry EXCEPT !.pc = "dispatch", !.dispatches = 1]

\* a handler that swallows the failure and returns as if the call succeeded
raiseMut(r, message) ==
    [r EXCEPT !.pc = "done", !.error = Some(message),
              !.outcome = IF Catches(r.tool) THEN Catch(r.tool, r.args, message)
                          ELSE Content(r.successMessage)]

\* a failure reaches the handler: its catch block, or out of the handler
raise(r, message) ==
    [r EXCEPT !.pc = "done", !.error = Some(message),
              !.outcome = IF Catches(r.tool) THEN Catch(r.tool, r.args, message)
                          ELSE Throw(message)]

\* the transport takes the next call once the one before is answered
Ready == \A r \in Slots : inv[r].pc = "idle"

playMusic(s) ==
    /\ Ready
    /\ \E uri \in Opt(UriInputs), type \in Opt(TypeInputs), id \in Opt(IdInputs),
       deviceId \in Opt(DeviceInputs) :
         inv' = [inv EXCEPT ![s] = tool_call("playMusic",
             [uri |-> uri, type |-> type, id |-> id, deviceId |-> deviceId])]

playbackAction(s) ==
    /\ Ready
    /\ \E action \in ActionInputs, deviceId \in Opt(DeviceInputs) :
         inv' = [inv EXCEPT ![s] = tool_call("playbackAction",
                                             [action |-> action, deviceId |-> deviceId]),
                            ![successMessage_cell(s)].successMessage = <<>>]

addToQueue(s) ==
    /\ Ready
    /\ \E uri \in Opt(UriInputs), type \in Opt(TypeInputs), id \in Opt(IdInputs),
       deviceId \in Opt(DeviceInputs) :
         inv' = [inv EXCEPT ![s] = tool_call("addToQueue",
             [uri |-> uri, type |-> type, id |-> id, deviceId |-> deviceId])]

createPlaylist(s) ==
    /\ Ready
    /\ \E name \in NameInputs, description \in Opt(DescriptionInputs),
       public \in Opt(BOOLEAN) :
         inv' = [inv EXCEPT ![s] = tool_call("createPlaylist",
             [name |-> name, description |-> description, public |-> public])]

addTracksToPlaylist(s) ==
    /\ Ready
    /\ \E playlistId \in PlaylistIdInputs, trackIds \in SeqsUpTo(TrackIdInputs, MaxIds),
       position \in Opt(PositionInputs) :
         inv' = [inv EXCEPT ![s] = tool_call("addTracksToPlaylist",
             [playlistId |-> playlistId, trackIds |-> trackIds, position |-> position])]

removeTracksFromPlaylist(s) ==
    /\ Ready
    /\ \E playlistId \in PlaylistIdInputs, trackIds \in SeqsUpTo(TrackIdInputs, MaxIds) :
         inv' = [inv EXCEPT ![s] = tool_call("removeTracksFromPlaylist",
             [playlistId |-> playlistId, trackIds |-> trackIds])]

searchSpotify(s) ==
    /\ Ready
    /\ \E query \in QueryInputs, type \in SearchTypes \cup {<<"artist">>},
       limit \in Opt(LimitInputs), offset \in Opt(OffsetInputs) :
         inv' = [inv EXCEPT ![s] = tool_call("searchSpotify",
             [query |-> query, type |-> type, limit |-> limit, offset |-> offset])]

getNowPlaying(s) ==
    /\ Ready
    /\ inv' = [inv EXCEPT ![s] = tool_call("getNowPlaying", <<>>)]

getUserPlaylists(s) ==
    /\ Ready
    /\ \E limit \in Opt(LimitInputs) :
         inv' = [inv EXCEPT ![s] = tool_call("getUserPlaylists",
             [limit |-> limit])]

getPlaylistTracks(s) ==
    /\ Ready
    /\ \E playlistId \in PlaylistIdInputs, limit \in Opt(LimitInputs) :
         inv' = [inv EXCEPT ![s] = tool_call("getPlaylistTracks",
             [playlistId |-> playlistId, limit |-> limit])]

getRecentlyPlayed(s) ==
    /\ Ready
    /\ \E limit \in Opt(LimitInputs) :
         inv' = [inv EXCEPT ![s] = tool_call("getRecentlyPlayed",
             [limit |-> limit])]

getFollowedArtists(s) ==
    /\ Ready
    /\ \E after \in Opt(AfterInputs), limit \in Opt(LimitInputs) :
         inv' = [inv EXCEPT ![s] = tool_call("getFollowedArtists",
             [after |-> after, limit |-> limit])]

getUserTopItems(s) ==
    /\ Ready
    /\ \E type \in TopTypeInputs, time_range \in TimeRangeInputs,
       limit \in Opt(LimitInputs) :
         inv' = [inv EXCEPT ![s] = tool_call("getUserTopItems",
             [type |-> type, time_range |-> time_range, limit |-> limit])]

\* --------------------------------------------------------------- dispatcher
\* handleSpotifyRequest: the credential cannot be made valid; the operation is
\* not invoked and the failure goes to the caller.
handleSpotifyRequest_fail(s) ==
    /\ inv[s].pc = "dispatch"
    /\ \E message \in Messages : inv' = [inv EXCEPT ![s] = raise(inv[s], message)]

\* handleSpotifyRequest: the credential is valid; the operation is invoked,
\* once, and runs up to its first API call.
handleSpotifyRequest_invoke(s) ==
    /\ inv[s].pc = "dispatch"
    /\ inv' = [inv EXCEPT ![s].pc = "api",
                          ![s].calls = <<Request(inv[s].tool, inv[s].args, <<>>)>>]

\* The pending API call resolves: the operation goes on to its next call, or
\* ends (playbackAction's assigns successMessage first) and the dispatcher has
\* its result.
api_resolve(s) ==
    /\ inv[s].pc = "api"
    /\ LET r == inv[s]
       IN  \E result \in Results(r.args, r.calls[Len(r.calls)]) :
             LET results == Append(r.results, result)
             IN  IF Len(results) < NumCalls(r.tool)
                 THEN inv' = [inv EXCEPT ![s] =
                                [r EXCEPT !.results = results,
                                          !.calls = Append(r.calls,
                                              Request(r.tool, r.args, results))]]
                 ELSE inv' = [inv EXCEPT
                                ![s] = [r EXCEPT !.pc = "return", !.results = results],
                                ![successMessage_cell(s)].successMessage =
                                    IF r.tool = "playbackAction"
                                    THEN playbackAction_successMessage(r.args)
                                    ELSE @]

\* The dispatcher returns the operation's result to the handler, which goes on
\* after its await and returns its content.
handler_return(s) ==
    /\ inv[s].pc = "return"
    /\ LET r == inv[s]
       IN  inv' = [inv EXCEPT ![s] =
                     [r EXCEPT !.pc = "done",
                               !.outcome = Return(r.tool, r.args,
                                   r.results[Len(r.results)],
                                   inv[successMessage_cell(s)].successMessage)]]

\* The pending API call fails (network, API error): the failure leaves the
\* operation and the dispatcher.
api_reject(s) ==
    /\ inv[s].pc = "api"
    /\ \E message \in Messages : inv' = [inv EXCEPT ![s] = raise(inv[s], message)]

\* the transport sends the outcome back; the slot is free again
deliver(s) ==
    /\ inv[s].pc = "done"
    /\ inv' = [inv EXCEPT ![s] = Idle]

Init == inv = [s \in Slots |-> Idle]

Next ==
    \E s \in Slots :
        \/ playMusic(s)
        \/ playbackAction(s)
        \/ addToQueue(s)
        \/ createPlaylist(s)
        \/ addTracksToPlaylist(s)
        \/ removeTracksFromPlaylist(s)
        \/ searchSpotify(s)
        \/ getNowPlaying(s)
        \/ getUserPlaylists(s)
        \/ getPlaylistTracks(s)
        \/ getRecentlyPlayed(s)
        \/ getFollowedArtists(s)
        \/ getUserTopItems(s)
        \/ handleSpotifyRequest_fail(s)
        \/ handleSpotifyRequest_invoke(s)
        \/ api_resolve(s)
        \/ api_reject(s)
        \/ handler_return(s)
        \/ deliver(s)

Spec == Init /\ [][Next]_vars

\* ------------------------------------------------- interleaved invocations
\* The transport hands a call to its handler while other invocations are
\* suspended on their remote calls: a call needs only a free slot.
playbackAction_pending(s) ==
    /\ inv[s].pc = "idle"
    /\ \E action \in ActionInputs :
         inv' = [inv EXCEPT ![s] = tool_call("playbackAction",
                                             [action |-> action, deviceId |-> None]),
                            ![successMessage_cell(s)].successMessage = <<>>]

addToQueue_pending(s) ==
    /\ inv[s].pc = "idle"
    /\ \E uri \in Opt({<<"spotify:", "track", ":", "t1">>}),
          type \in Opt({<<"album">>}), id \in Opt({<<"a1">>}) :
         inv' = [inv EXCEPT ![s] = tool_call("addToQueue",
             [uri |-> uri, type |-> type, id |-> id, deviceId |-> None])]

NextPending ==
    \E s \in Slots :
        \/ playbackAction_pending(s)
        \/ addToQueue_pending(s)
        \/ handleSpotifyRequest_fail(s)
        \/ handleSpotifyRequest_invoke(s)
        \/ api_resolve(s)
        \/ api_reject(s)
        \/ handler_return(s)
        \/ deliver(s)

SpecPending == Init /\ [][NextPending]_vars

\* =================================================================== claims
UriTools == {"playMusic", "addToQueue"}

\* the handler of the invocation in slot s has run (its arguments passed the schema)
Ran(s) == inv[s].pc # "idle" /\ inv[s].outcome.kind # "invalid"

\* the URIs an API call carries
SentUris(call) ==
    IF call.method = "addItemToPlaybackQueue" THEN {call.uri}
    ELSE call.context_uri
         \cup (IF call.uris = None THEN {}
               ELSE {Get(call.uris)[i] : i \in 1..Len(Get(call.uris))})

\* C1: playMusic and addToQueue, called with no (or an empty) uri and with type
\* or id missing (or empty), return the text 'Error: Must provide either a URI
\* or both a type and ID' without calling the dispatcher or the API.
C1_MissingUriIsRejected ==
    \A s \in Slots :
        (/\ inv[s].tool \in UriTools
         /\ Ran(s)
         /\ ~Truthy(inv[s].args.uri)
         /\ ~Truthy(inv[s].args.type) \/ ~Truthy(inv[s].args.id))
        => /\ inv[s].pc = "done"
           /\ inv[s].outcome =
                Content(<<"Error: Must provide either a URI or both a type and ID">>)
           /\ inv[s].dispatches = 0
           /\ inv[s].calls = <<>>

\* addToQueue is called with a type and an empty id and no uri, and has answered
\* with the error text
C1_Witness ==
    \E s \in Slots :
        /\ inv[s].tool = "addToQueue"
        /\ inv[s].args.uri = None
        /\ inv[s].args.type = Some(<<"album">>)
        /\ inv[s].args.id = Some(<<>>)
        /\ inv[s].pc = "done"
        /\ inv[s].outcome.kind = "content"
        /\ inv[s].dispatches = 0

\* C2: the one URI playMusic and addToQueue send to the API is the uri argument
\* when one is supplied (not empty), whatever type and id are, and otherwise
\* 'spotify:<type>:<id>' made of the type and id supplied.
C2_UriResolution ==
    \A s \in Slots :
        (inv[s].tool \in UriTools /\ Ran(s))
        => \A i \in 1..Len(inv[s].calls) :
             LET a == inv[s].args
             IN  IF Truthy(a.uri)
                 THEN SentUris(inv[s].calls[i]) = {Get(a.uri)}
                 ELSE /\ Truthy(a.type) /\ Truthy(a.id)
                      /\ SentUris(inv[s].calls[i]) =
                           {<<"spotify:">> \o Get(a.type) \o <<":">> \o Get(a.id)}

\* playMusic is called with a uri and with a type and id that name another item,
\* and the API call carries the uri
C2_Witness ==
    \E s \in Slots :
        /\ inv[s].tool = "playMusic"
        /\ inv[s].args.uri = Some(<<"spotify:", "album", ":", "a1">>)
        /\ inv[s].args.type = Some(<<"track">>)
        /\ inv[s].args.id = Some(<<"t1">>)
        /\ Len(inv[s].calls) = 1
        /\ SentUris(inv[s].calls[1]) = {<<"spotify:", "album", ":", "a1">>}

IsTrackUri(u) ==
    Len(u) >= 4 /\ u[1] = "spotify:" /\ u[2] = "track" /\ u[3] = ":"

\* C3: playMusic passes a URI of the form spotify:track:<id>, synthesized or
\* supplied as uri, as a one-element track list and not as the context URI, and
\* a URI of another type as the context URI and not in the track list.
C3_TrackUriAsTrackList ==
    \A s \in Slots :
        (inv[s].tool = "playMusic" /\ Ran(s))
        => \A i \in 1..Len(inv[s].calls) :
             LET call == inv[s].calls[i]
             IN  \A u \in SentUris(call) :
                   IF IsTrackUri(u)
                   THEN call.uris = Some(<<u>>) /\ call.context_uri = None
                   ELSE call.context_uri = Some(u) /\ call.uris = None

TrackListTools == {"addTracksToPlaylist", "removeTracksFromPlaylist"}

\* C4: addTracksToPlaylist and removeTracksFromPlaylist, called with an empty
\* trackIds, return 'Error: No track IDs provided' and call neither the
\* dispatcher nor the playlist API, whatever playlistId and position are.
C4_EmptyTrackIdsShortCircuit ==
    \A s \in Slots :
        (/\ inv[s].tool \in TrackListTools
         /\ inv[s].pc # "idle"
         /\ Len(inv[s].args.trackIds) = 0)
        => /\ inv[s].pc = "done"
           /\ inv[s].dispatches = 0
           /\ inv[s].calls = <<>>
           /\ Ran(s) => inv[s].outcome = Content(<<"Error: No track IDs provided">>)

\* addTracksToPlaylist is called with no track id and a position, and has
\* answered with the error text
C4_Witness ==
    \E s \in Slots :
        /\ inv[s].tool = "addTracksToPlaylist"
        /\ inv[s].args.trackIds = <<>>
        /\ inv[s].args.position = Some(1)
        /\ inv[s].pc = "done"
        /\ inv[s].outcome = Content(<<"Error: No track IDs provided">>)

\* the URIs of a playlist call, in the order of the call
PlaylistCallUris(call) ==
    IF call.method = "addItemsToPlaylist" THEN call.uris
    ELSE [i \in 1..Len(call.tracks) |-> call.tracks[i].uri]

\* C5: with a non-empty trackIds the URIs passed to the playlist API are, in
\* order, 'spotify:track:<id>' for each id: same length, i-th URI from the i-th
\* id, duplicates kept; and the call names the playlistId supplied.
C5_TrackUrisInOrder ==
    \A s \in Slots :
        (/\ inv[s].tool \in TrackListTools
         /\ Ran(s)
         /\ Len(inv[s].args.trackIds) > 0)
        => /\ inv[s].pc = "api" => Len(inv[s].calls) = 1
           /\ \A c \in 1..Len(inv[s].calls) :
                LET uris == PlaylistCallUris(inv[s].calls[c])
                    trackIds == inv[s].args.trackIds
                IN  /\ inv[s].calls[c].playlist_id = inv[s].args.playlistId
                    /\ Len(uris) = Len(trackIds)
                    /\ \A i \in 1..Len(trackIds) :
                         uris[i] = <<"spotify:", "track", ":">> \o trackIds[i]

\* addTracksToPlaylist has passed the same id twice, as two URIs
C5_Witness ==
    \E s \in Slots :
        /\ inv[s].tool = "addTracksToPlaylist"
        /\ inv[s].args.trackIds = <<(<<"t2">>), (<<"t2">>)>>
        /\ inv[s].args.playlistId = <<"P2">>
        /\ Len(inv[s].calls) = 1
        /\ inv[s].calls[1].uris = << <<"spotify:", "track", ":", "t2">>,
                                     <<"spotify:", "track", ":", "t2">> >>

\* C6: after a successful remote call the message of addTracksToPlaylist and
\* removeTracksFromPlaylist gives the number n of ids supplied, then 'track'
\* when n = 1 and 'tracks' when n >= 2, and the playlist id.
C6_Pluralization ==
    \A s \in Slots :
        (/\ inv[s].tool \in TrackListTools
         /\ inv[s].pc = "done"
         /\ Len(inv[s].results) = 1)
        => LET n == Len(inv[s].args.trackIds)
               start == IF inv[s].tool = "addTracksToPlaylist"
                        THEN "Successfully added " ELSE "Successfully removed "
               end == IF inv[s].tool = "addTracksToPlaylist"
                      THEN " to playlist (ID: " ELSE " from playlist (ID: "
               id == inv[s].args.playlistId[1]
           IN  /\ inv[s].outcome.kind = "content"
               /\ n = 1 => inv[s].outcome.text = <<start, "1", " track", end, id, ")">>
               /\ n >= 2 => inv[s].outcome.text =
                              <<start, ToString(n), " track", "s", end, id, ")">>
               /\ n >= 1

\* removeTracksFromPlaylist has removed one track and says 'track'
C6_Witness ==
    \E s \in Slots :
        /\ inv[s].tool = "removeTracksFromPlaylist"
        /\ inv[s].pc = "done"
        /\ Len(inv[s].results) = 1
        /\ inv[s].outcome.text = <<"Successfully removed ", "1", " track",
                                   " from playlist (ID: ", "P1", ")">>

\* C7: a searchSpotify call with a limit outside 1..50 or an offset outside
\* 0..1000 is rejected by the schema, the handler does not run and nothing is
\* dispatched; every search the API receives has a limit in 1..50 and an offset
\* in 0..1000, which are 20 and 0 when the argument is omitted.
C7_SearchBounds ==
    \A s \in Slots :
        (inv[s].tool = "searchSpotify" /\ inv[s].pc # "idle")
        => LET a == inv[s].args
           IN  /\ (\/ a.limit # None /\ (Get(a.limit) < 1 \/ Get(a.limit) > 50)
                   \/ a.offset # None /\ (Get(a.offset) < 0 \/ Get(a.offset) > 1000))
                  => /\ inv[s].pc = "done"
                     /\ inv[s].outcome = Invalid
                     /\ inv[s].dispatches = 0
                     /\ inv[s].calls = <<>>
               /\ \A i \in 1..Len(inv[s].calls) :
                    /\ inv[s].calls[i].limit \in 1..50
                    /\ inv[s].calls[i].offset \in 0..1000
                    /\ a.limit = None => inv[s].calls[i].limit = 20
                    /\ a.offset = None => inv[s].calls[i].offset = 0
                    /\ a.limit # None => inv[s].calls[i].limit = Get(a.limit)
                    /\ a.offset # None => inv[s].calls[i].offset = Get(a.offset)

\* a search with offset 1001 has been rejected, the handler not run
C7_Witness ==
    \E s \in Slots :
        /\ inv[s].tool = "searchSpotify"
        /\ inv[s].args.type = <<"track">>
        /\ inv[s].args.limit = Some(50)
        /\ inv[s].args.offset = Some(1001)
        /\ inv[s].pc = "done"
        /\ inv[s].outcome = Invalid
        /\ inv[s].dispatches = 0

\* the result page of a search for the item type asked for
SearchPage(type, results) ==
    CASE type = <<"track">> -> results.tracks
      [] type = <<"album">> -> results.albums
      [] type = <<"playlist">> -> results.playlists

\* the item list of the answer to a list read
ListItems(tool, result) ==
    CASE tool = "getPlaylistTracks" ->
           IF result.items = None THEN <<>> ELSE Get(result.items)
      [] tool = "getFollowedArtists" -> result.artists.items
      [] OTHER -> result.items

\* C8: an empty result set gives no heading over an empty listing: a search
\* with no matching item returns 'No <type> results found for "<query>"', and
\* each list read whose answer has no item returns its own 'none' message.
C8_EmptyResultMessage ==
    \A s \in Slots :
        (inv[s].pc = "done" /\ Len(inv[s].results) = 1)
        => LET a == inv[s].args
               result == inv[s].results[1]
           IN  /\ (/\ inv[s].tool = "searchSpotify"
                   /\ \/ SearchPage(a.type, result) = None
                      \/ Len(Get(SearchPage(a.type, result)).items) = 0)
                  => inv[s].outcome =
                       Content(<<"No ">> \o a.type \o <<" results found for \"">>
                               \o a.query \o <<"\"">>)
               /\ (inv[s].tool \in ListReads /\ Len(ListItems(inv[s].tool, result)) = 0)
                  => inv[s].outcome = Content(
                       CASE inv[s].tool = "getUserPlaylists" ->
                              <<"You don't have any playlists on Spotify">>
                         [] inv[s].tool = "getPlaylistTracks" ->
                              <<"This playlist doesn't have any tracks">>
                         [] inv[s].tool = "getRecentlyPlayed" ->
                              <<"You don't have any recently played tracks on Spotify">>
                         [] inv[s].tool = "getFollowedArtists" ->
                              <<"User doesn't follow any artists on Spotify">>
                         [] inv[s].tool = "getUserTopItems" ->
                              <<"User doesn't have any top ">> \o a.type
                              \o <<" on Spotify">>)

\* a playlist search was answered with a page of no items and has returned the
\* 'No playlist results' text
C8_Witness ==
    \E s \in Slots :
        /\ inv[s].tool = "searchSpotify"
        /\ inv[s].pc = "done"
        /\ Len(inv[s].results) = 1
        /\ inv[s].results[1].playlists = Some([items |-> <<>>])
        /\ inv[s].outcome.text =
             <<"No ", "playlist", " results found for \"", "artist:Queen remaster", "\"">>

\* an item that is a track with its artists and its album name
WellFormedTrack(item) ==
    /\ item.type = <<"track">>
    /\ item.artists # None
    /\ item.album # None
    /\ Get(item.album).name # None

\* C9: getNowPlaying reports neither absent nor non-track playback as an error:
\* no playback object, or one without item, gives exactly 'Nothing is currently
\* playing on Spotify'; an item that is not a track gives the 'Currently playing
\* item is not a track' message; only a well-formed track gives the
\* playing/paused report.
C9_NowPlayingCases ==
    \A s \in Slots :
        (inv[s].tool = "getNowPlaying" /\ inv[s].pc = "done" /\ Len(inv[s].results) = 1)
        => LET currentTrack == inv[s].results[1]
               absent == currentTrack = None \/ Get(currentTrack).item = None
               text == inv[s].outcome.text
           IN  /\ inv[s].outcome.kind = "content"
               /\ text[1] # "Error getting current track: "
               /\ absent => text = <<"Nothing is currently playing on Spotify">>
               /\ (~absent /\ ~WellFormedTrack(Get(Get(currentTrack).item)))
                  => text = <<"Currently playing item is not a track (might be a podcast episode)">>
               /\ text[1] = "# Currently "
                  => ~absent /\ WellFormedTrack(Get(Get(currentTrack).item))

\* a podcast episode is playing and the 'not a track' message was returned
C9_Witness ==
    \E s \in Slots :
        /\ inv[s].tool = "getNowPlaying"
        /\ inv[s].pc = "done"
        /\ Len(inv[s].results) = 1
        /\ inv[s].results[1] # None
        /\ Get(inv[s].results[1]).item = Some(Episode)
        /\ inv[s].outcome.text[1] =
             "Currently playing item is not a track (might be a podcast episode)"

CatchingTools == {"searchSpotify", "createPlaylist", "addTracksToPlaylist",
                  "removeTracksFromPlaylist"}

\* C10: when the dispatcher call fails, searchSpotify, createPlaylist,
\* addTracksToPlaylist and removeTracksFromPlaylist catch the failure and
\* return a text 'Error <doing something>: <message>' with the failure's
\* message; the failure does not leave the handler.
C10_FailureCaughtLocally ==
    \A s \in Slots :
        (inv[s].tool \in CatchingTools /\ inv[s].pc = "done" /\ inv[s].error # None)
        => LET text == inv[s].outcome.text
               message == Get(inv[s].error)
           IN  /\ inv[s].outcome.kind = "content"
               /\ Len(text) > Len(message)
               /\ text[1] \in {"Error searching for ", "Error creating playlist: ",
                               "Error adding tracks to playlist: ",
                               "Error removing tracks from playlist: "}
               /\ SubSeq(text, Len(text) - Len(message) + 1, Len(text)) = message

\* the handler returns before its dispatcher call: the arguments of C1 and C4
ShortCircuited(t, a) ==
    \/ t \in UriTools /\ ~Truthy(a.uri) /\ (~Truthy(a.type) \/ ~Truthy(a.id))
    \/ t \in TrackListTools /\ Len(a.trackIds) = 0

\* C11 as stated: an invocation that passes its input checks calls the
\* dispatcher once and its operation makes one API call, a short-circuited one
\* makes none, and no second call follows a failure.
C11_OneCallPerInvocation ==
    \A s \in Slots :
        inv[s].pc # "idle"
        => /\ inv[s].dispatches <= 1
           /\ Len(inv[s].calls) <= 1
           /\ (Ran(s) /\ ~ShortCircuited(inv[s].tool, inv[s].args))
              => inv[s].dispatches = 1
           /\ (~Ran(s) \/ ShortCircuited(inv[s].tool, inv[s].args))
              => inv[s].dispatches = 0 /\ inv[s].calls = <<>>
           /\ (inv[s].pc = "done" /\ inv[s].dispatches = 1 /\ inv[s].error = None)
              => Len(inv[s].calls) = 1

\* the API calls of a completed operation: createPlaylist looks the user up
\* before it creates the playlist
CallsOf(t) == IF t = "createPlaylist" THEN <<"profile", "createPlaylist">>
              ELSE <<"one call">>

\* C11, amended: an invocation that passes its input checks calls the
\* dispatcher once; its operation makes one API call, and createPlaylist's two
\* (the profile lookup, then the creation, once the lookup has answered); a
\* short-circuited or rejected invocation makes none; a call is made only after
\* every call before it has answered, so none follows a failure.
C11_CallsPerInvocation ==
    \A s \in Slots :
        inv[s].pc # "idle"
        => LET t == inv[s].tool
               calls == inv[s].calls
           IN  /\ inv[s].dispatches <= 1
               /\ Len(calls) <= Len(CallsOf(t))
               /\ (Ran(s) /\ ~ShortCircuited(t, inv[s].args))
                  => inv[s].dispatches = 1
               /\ (~Ran(s) \/ ShortCircuited(t, inv[s].args))
                  => inv[s].dispatches = 0 /\ calls = <<>>
               /\ (inv[s].pc = "done" /\ inv[s].dispatches = 1 /\ inv[s].error = None)
                  => Len(calls) = Len(CallsOf(t))
               /\ t = "createPlaylist"
                  => \A i \in 1..Len(calls) : calls[i].method = CallsOf(t)[i]
               /\ Len(calls) <= Len(inv[s].results) + 1
               /\ inv[s].error # None
                  => Len(calls) \in {Len(inv[s].results), Len(inv[s].results) + 1}

\* createPlaylist has failed in its second API call, after two calls in all
C11_Witness ==
    \E s \in Slots :
        /\ inv[s].tool = "createPlaylist"
        /\ inv[s].pc = "done"
        /\ inv[s].dispatches = 1
        /\ inv[s].error # None
        /\ Len(inv[s].results) = 1
        /\ Len(inv[s].calls) = 2
        /\ inv[s].calls[2].method = "createPlaylist"

\* the first place of token t in a text that holds it
IndexOf(text, t) ==
    CHOOSE k \in 1..Len(text) : text[k] = t /\ \A j \in 1..(k - 1) : text[j] # t

RECURSIVE Lines(_)
\* the lines of a listing: its tokens between the newlines
Lines(text) ==
    IF \A k \in 1..Len(text) : text[k] # "\n" THEN <<text>>
    ELSE LET k == IndexOf(text, "\n")
         IN  <<SubSeq(text, 1, k - 1)>> \o Lines(SubSeq(text, k + 1, Len(text)))

\* the listing of a list read: what follows the heading and its blank line
Listing(text) == SubSeq(text, IndexOf(text, "\n\n") + 1, Len(text))

TrackEntryReads == {"getPlaylistTracks", "getRecentlyPlayed"}

\* the line describes the item: its number, its name and, last, its id
Describes(line, i, item) ==
    /\ Len(line) >= 3 + Len(item.name)
    /\ line[1] = ToString(i)
    /\ line[2] = ". \""
    /\ SubSeq(line, 3, 2 + Len(item.name)) = item.name
    /\ SubSeq(line, Len(line) - Len(item.id) + 1, Len(line)) = item.id

RunAlone(r) ==
    IF r.error # None THEN raise(r, Get(r.error)).outcome
    ELSE IF r.results = <<>> THEN tool_call(r.tool, r.args).outcome
    ELSE Return(r.tool, r.args, r.results[Len(r.results)],
                IF r.tool = "playbackAction"
                THEN playbackAction_successMessage(r.args) ELSE <<>>)

\* the message of each playback action
ActionMessage(action) ==
    CASE action = <<"pause">> -> <<"Playback paused">>
      [] action = <<"resume">> -> <<"Playback resumed">>
      [] action = <<"skipToNext">> -> <<"Skipped to next track">>
      [] action = <<"skipToPrevious">> -> <<"Skipped to previous track">>

\* C13: handlers share no mutable state: whatever other invocations are
\* pending, an invocation returns what it returns when run alone with its
\* arguments and API answers, two invocations with the same arguments and
\* answers return the same, and playbackAction's message is that of the action
\* of its own invocation.
C13_NoSharedState ==
    \A s \in Slots :
        /\ inv[s].pc = "done" => inv[s].outcome = RunAlone(inv[s])
        /\ (inv[s].tool = "playbackAction" /\ inv[s].outcome.kind = "content")
           => inv[s].outcome.text = ActionMessage(inv[s].args.action)
        /\ (inv[s].tool = "addToQueue" /\ inv[s].pc = "done" /\ Len(inv[s].results) = 1)
           => inv[s].outcome.text = <<"Added item ">> \o inv[s].calls[1].uri
                                    \o <<" to queue">>
        /\ \A t \in Slots :
             (/\ inv[s].pc = "done" /\ inv[t].pc = "done"
              /\ inv[s].tool = inv[t].tool
              /\ inv[s].args = inv[t].args
              /\ inv[s].results = inv[t].results
              /\ inv[s].error = inv[t].error)
             => inv[s].outcome = inv[t].outcome

\* two playback actions were pending together; the second to be called was
\* answered first, and the first has returned the message of its own action
C13_Witness ==
    \E s, t \in Slots :
        /\ s # t
        /\ inv[s].tool = "playbackAction" /\ inv[t].tool = "playbackAction"
        /\ inv[s].args.action = <<"pause">>
        /\ inv[t].args.action = <<"skipToNext">>
        /\ inv[t].pc = "return"
        /\ inv[t].successMessage = <<"Skipped to next track">>
        /\ inv[s].pc = "done"
        /\ inv[s].outcome = Content(<<"Playback paused">>)

\* the tools whose handlers have no catch block
PropagatingTools ==
    {"playMusic", "playbackAction", "addToQueue", "createPlaylist"} \cup ListReads

\* the openings of the texts the catch blocks return
ErrorPrefixes ==
    {<<"Error searching for ">>, <<"Error getting current track: ">>,
     <<"Error adding tracks to playlist: ">>,
     <<"Error removing tracks from playlist: ">>}

\* C14: an invocation whose dispatcher call failed never ends with its
\* success text: a handler with a catch block returns a text beginning
\* 'Error', and from every other handler (playMusic, playbackAction,
\* addToQueue, the list reads) the failure goes on to the transport with its
\* message and no content block is returned; playbackAction returns neither
\* an empty nor a stale message.
C14_NoSuccessAfterFailure ==
    \A s \in Slots :
        (inv[s].pc = "done" /\ inv[s].error # None) =>
            /\ inv[s].outcome.kind \in {"content", "throw"}
            /\ inv[s].outcome.kind = "content" =>
                 /\ inv[s].tool \notin PropagatingTools
                 /\ <<inv[s].outcome.text[1]>> \in ErrorPrefixes
                 /\ SubSeq(inv[s].outcome.text, Len(inv[s].outcome.text), 
                           Len(inv[s].outcome.text)) = Get(inv[s].error)
            /\ inv[s].tool \in PropagatingTools =>
                 inv[s].outcome = Throw(Get(inv[s].error))
            /\ inv[s].tool = "playbackAction" =>
                 /\ inv[s].outcome.kind # "content"
                 /\ inv[s].successMessage = <<>>

\* a playback action whose API call was rejected: the failure left the handler
C14_Witness ==
    \E s \in Slots :
        /\ inv[s].pc = "done"
        /\ inv[s].tool = "playbackAction"
        /\ Len(inv[s].calls) = 1
        /\ inv[s].results = <<>>
        /\ inv[s].error # None
        /\ inv[s].outcome.kind = "throw"

====
